---- MODULE Spec2Model ----
(***************************************************************************)
(* Review acquisition (selenium_scraper.py) and review analytics           *)
(* (analysis.py) of the Muse review pipeline.                              *)
(*                                                                         *)
(* A text is a sequence of one-character strings, so that whitespace       *)
(* normalisation, case folding, tokenisation and key prefixes are computed *)
(* character by character as the Python code computes them.                *)
(***************************************************************************)
EXTENDS Integers, Sequences, FiniteSets, TLC

VARIABLES
    pc,            \* position inside scrape_reviews / scrape_js_reviews
    disabled,      \* os.environ.get("DISABLE_SELENIUM") == "1"
    page,          \* the document the static GET received (<<>> before / on failure)
    log,           \* the strategies invoked so far, in order
    staticCalls,   \* calls of fetch_static_reviews
    staticOutcome, \* "none" | "raised" | "empty" | "nonempty"
    staticRevs,    \* the list fetch_static_reviews returned
    renderCalls,   \* calls of scrape_js_reviews
    created,       \* browser instances created by uc.Chrome(...)
    quitCalls,     \* calls of driver.quit()
    driver,        \* "none" | "open" | "quit" | "quit_failed" (driver.quit() raised)
    passes,        \* load-more passes started
    clicked,       \* the `clicked` flag of the last load-more pass
    lastPass,      \* the last load-more pass: buttons found, tried, clicked, failed
    collectCalls,  \* calls of _collect_reviews_via_js
    scrolls,       \* scroll-to-bottom passes done
    texts,         \* the renderer's `texts` list
    pending,       \* how the try block was left: "none" | "return" | "raise"
    excAt,         \* the renderer step that raised ("none" when none did)
    result,        \* the list scrape_reviews returned
    outcome,       \* "running" | "returned" | "raised"
    source,        \* which branch produced the result: "none" | "static" | "disabled" | "render"
    op,            \* analytics: the function called ("none" before the call)
    reviews,       \* analytics: the argument list
    nReq,          \* analytics: clusters' n / phrases' k
    docs,          \* analytics: the filtered, cleaned corpus
    aResult,       \* analytics: the value returned
    aRaised,       \* analytics: TRUE when the call raised to its caller
    kmeansCalls,   \* analytics: KMeans(...).fit calls
    kmeansFailed   \* analytics: TRUE when KMeans(...).fit raised

scrapeVars == <<pc, disabled, page, log, staticCalls, staticOutcome, staticRevs,
                renderCalls, created, quitCalls, driver, passes, clicked,
                lastPass, collectCalls, scrolls, texts, pending,
                excAt, result, outcome, source>>
analyticsVars == <<op, reviews, nReq, docs, aResult, aRaised, kmeansCalls, kmeansFailed>>
vars == <<scrapeVars, analyticsVars>>

----------------------------------------------------------------------------
(* Bounds of the model *)
MaxEls == 2        \* elements of a statically fetched document
MaxJs == 2         \* nodes the in-page traversal script matches
MaxSrcEls == 1     \* elements of the rendered page source
MaxButtons == 2    \* load-more buttons found in one pass
MaxReviews == 3    \* reviews handed to an analytics function
MaxN == 4          \* the cluster count asked of clusters

(* Program constants *)
MinWords == 5      \* _dedup(min_words=5), and the >= 5 filters
KeyLen == 200      \* _dedup(key_len=200)
RenderCap == 150   \* _dedup(texts)[:150]
SupplementBelow == 10  \* if len(texts) < 10
Clicks == 6        \* scrape_js_reviews(clicks=6)
ScrollPasses == 3  \* for _ in range(3)

----------------------------------------------------------------------------
(* Characters and strings *)

WS == {" ", "\t", "\n", "\r", "\f"}
IsWs(c) == c \in WS

UpperCase == <<"A","B","C","D","E","F","G","H","I","J","K","L","M",
               "N","O","P","Q","R","S","T","U","V","W","X","Y","Z">>
LowerCase == <<"a","b","c","d","e","f","g","h","i","j","k","l","m",
               "n","o","p","q","r","s","t","u","v","w","x","y","z">>

LowerChar(c) ==
    IF \E i \in 1..26 : UpperCase[i] = c
    THEN LowerCase[CHOOSE i \in 1..26 : UpperCase[i] = c]
    ELSE c

\* str.lower()
Lower(t) == [i \in 1..Len(t) |-> LowerChar(t[i])]

\* t[:n]
Prefix(t, n) == IF Len(t) <= n THEN t ELSE SubSeq(t, 1, n)

\* A loop `for i in lo..hi: st = Step(st, i)`, run left to right.  The range
\* is split in halves, the left half evaluated first, so that the depth of
\* the evaluation is logarithmic in the length of the loop.
RECURSIVE Loop(_, _, _, _)
Loop(Step(_, _), lo, hi, st) ==
    IF lo > hi THEN st
    ELSE IF lo = hi THEN Step(st, lo)
    ELSE LET mid == (lo + hi) \div 2
             left == Loop(Step, lo, mid, st)
         IN  IF left = left THEN Loop(Step, mid + 1, hi, left) ELSE st

\* re.sub(r"\s+", " ", t): every maximal run of whitespace becomes one space
CollapseStep(t, acc, i) ==
    IF IsWs(t[i])
    THEN IF i > 1 /\ IsWs(t[i-1]) THEN acc ELSE Append(acc, " ")
    ELSE Append(acc, t[i])

CollapseWs(t) == Loop(LAMBDA acc, i : CollapseStep(t, acc, i), 1, Len(t), <<>>)

\* str.strip(): leading and trailing whitespace removed
Strip(t) ==
    LET solid == {i \in 1..Len(t) : ~IsWs(t[i])}
    IN  IF solid = {} THEN <<>>
        ELSE LET lo == CHOOSE i \in solid : \A j \in solid : i <= j
                 hi == CHOOSE i \in solid : \A j \in solid : j <= i
             IN  SubSeq(t, lo, hi)

\* len(t.split()): the number of maximal runs of non-whitespace
NTokens(t) ==
    Cardinality({i \in 1..Len(t) : ~IsWs(t[i]) /\ (i = 1 \/ IsWs(t[i-1]))})

\* re.sub(r"\s+", " ", (t or "")).strip()
Normalize(t) == Strip(CollapseWs(t))

----------------------------------------------------------------------------
(* _dedup *)

\* the body of `for t in texts`, on the state (out, seen)
DedupStep(ts, st, i, min_words, key_len) ==
    LET t == Normalize(ts[i])
    IN  IF NTokens(t) < min_words
        THEN st
        ELSE LET k == Prefix(Lower(t), key_len)
             IN  IF k \notin st.seen
                 THEN [out |-> Append(st.out, t), seen |-> st.seen \cup {k}]
                 ELSE st

DedupWith(ts, min_words, key_len) ==
    Loop(LAMBDA st, i : DedupStep(ts, st, i, min_words, key_len),
         1, Len(ts), [out |-> <<>>, seen |-> {}]).out

\* _dedup(texts) with the default min_words=5, key_len=200
_dedup(ts) == DedupWith(ts, MinWords, KeyLen)

----------------------------------------------------------------------------
(* The texts the inputs are drawn from *)

\* "aa bb cc dd ee": 5 tokens, 14 characters
TShort ==
    <<"a","a"," ","b","b"," ","c","c"," ","d","d"," ","e","e">>

\* "AA bb CC dd ee": TShort in another case
TShortCase ==
    <<"A","A"," ","b","b"," ","C","C"," ","d","d"," ","e","e">>

\* "aa  bb\tcc\n dd ee": TShort with other whitespace inside
TShortWs ==
    <<"a","a"," "," ","b","b","\t","c","c","\n"," ","d","d"," ","e","e">>

\* "aa bb cc dd": 4 tokens
TFour ==
    <<"a","a"," ","b","b"," ","c","c"," ","d","d">>

\* "this item really works very well indeed": 7 tokens, 39 characters
TMid ==
    <<"t","h","i","s"," ","i","t","e","m"," ","r","e","a","l","l","y"," ",
      "w","o","r","k","s"," ","v","e","r","y"," ","w","e","l","l"," ","i",
      "n","d","e","e","d">>

\* "great value and fast shipping from them": 7 tokens, 39 characters
TOther ==
    <<"g","r","e","a","t"," ","v","a","l","u","e"," ","a","n","d"," ","f",
      "a","s","t"," ","s","h","i","p","p","i","n","g"," ","f","r","o","m",
      " ","t","h","e","m">>

\* "lovely design with a very quiet motor": 7 tokens, 37 characters
TThird ==
    <<"l","o","v","e","l","y"," ","d","e","s","i","g","n"," ","w","i","t",
      "h"," ","a"," ","v","e","r","y"," ","q","u","i","e","t"," ","m","o",
      "t","o","r">>

\* "battery lasts long and build is solid": 7 tokens, 37 characters
TSel ==
    <<"b","a","t","t","e","r","y"," ","l","a","s","t","s"," ","l","o","n",
      "g"," ","a","n","d"," ","b","u","i","l","d"," ","i","s"," ","s","o",
      "l","i","d">>

\* "aa bb cc dd ": the start of the long texts
TLongHead ==
    <<"a","a"," ","b","b"," ","c","c"," ","d","d"," ">>

Rep(c, n) == [i \in 1..n |-> c]

\* two texts of 203 characters whose first 202 characters are the same
TLongF == TLongHead \o Rep("e", 190) \o <<"f">>
TLongG == TLongHead \o Rep("e", 190) \o <<"g">>

\* "aa bb cc d..d e..e": 5 tokens, a different text for every i >= 0
Gen(i) ==
    <<"a","a"," ","b","b"," ","c","c"," ">>
        \o Rep("d", 1 + (i % 18)) \o <<" ">> \o Rep("e", 1 + (i \div 18))

----------------------------------------------------------------------------
(* _extract_from_html *)

\* A document is the sequence of its elements in document order; an element
\* carries the class (or attribute) a selector can match, and its text.  A
\* structured-data block is an element of class "ld+json" whose text is the
\* review body.
Okendo ==
    << {"okeReviews-review-body"},
       {"okeReviews-review-content"},
       {"okeReviewsReviewContent"},
       {"data-oke-review-text"} >>

Generic ==
    << {"jdgm-rev__body", "jdgm-rev__content", "jdgm-rev__title"},
       {"spr-review-content", "spr-review-body", "spr-review-header-title"},
       {"stamped-review-message", "stamped-review-content"},
       {"yotpo-review", "yotpo-main content-review", "yotpo-review-content"} >>

\* soup.select(sel): the elements a selector group matches, in document order
Select(doc, sel) == SelectSeq(doc, LAMBDA el : el.cls \in sel)

\* el.get_text(" ", strip=True) of an element holding one text node
get_text(el) == Strip(el.text)

\* the body of `for el in soup.select(sel)`:
\* txt = el.get_text(" ", strip=True); if len(txt.split()) >= 5: hits.append(txt)
HitStep(els, hits, i) ==
    LET txt == get_text(els[i])
    IN  IF NTokens(txt) >= MinWords THEN Append(hits, txt) ELSE hits

\* the body of `for sel in [...]`
SelStep(doc, sels, hits, s) ==
    LET els == Select(doc, sels[s])
    IN  Loop(LAMBDA h, i : HitStep(els, h, i), 1, Len(els), hits)

SelLoop(doc, sels, hits) ==
    Loop(LAMBDA h, s : SelStep(doc, sels, h, s), 1, Len(sels), hits)

\* the Okendo selectors first, then the generic ones
Hits(doc) == SelLoop(doc, Generic, SelLoop(doc, Okendo, <<>>))

_extract_from_html(doc) == _dedup(Hits(doc))

----------------------------------------------------------------------------
(* _collect_reviews_via_js: what the in-page script returns for the inner
   texts of the nodes it matches, in traversal order *)

\* t = (node.innerText || "").trim(); if (t.split(/\s+/).length >= 5) out.push(t)
JsCollectStep(dom, out, i) ==
    LET t == Strip(dom[i])
    IN  IF NTokens(t) >= MinWords THEN Append(out, t) ELSE out

\* Array.from(new Set(...)): exact duplicates dropped, insertion order kept
JsSetStep(ts, out, i) ==
    IF \E j \in 1..Len(out) : out[j] = ts[i] THEN out ELSE Append(out, ts[i])

_collect_reviews_via_js(dom) ==
    LET collected == Loop(LAMBDA o, i : JsCollectStep(dom, o, i), 1, Len(dom), <<>>)
    IN  Loop(LAMBDA o, i : JsSetStep(collected, o, i), 1, Len(collected), <<>>)

----------------------------------------------------------------------------
(* Inputs *)

SeqsUpTo(S, n) == UNION {[1..m -> S] : m \in 0..n}

El(c, t) == [cls |-> c, text |-> t]

StaticEls ==
    { El("okeReviews-review-body", TShort),
      El("jdgm-rev__body", TShortCase),
      El("okeReviews-review-content", TShortWs),
      El("okeReviews-review-body", TFour),
      El("okeReviews-review-body", TLongF),
      El("stamped-review-message", TLongG),
      El("jdgm-rev__body", TMid),
      El("ld+json", TMid),
      El("ld+json", TOther) }

\* three structured-data reviews and two selector-matched reviews, one of
\* them (TMid) the same text in both
FixtureDoc ==
    << El("ld+json", TMid), El("ld+json", TOther), El("ld+json", TThird),
       El("okeReviews-review-body", TMid), El("okeReviews-review-body", TSel) >>

\* a page with n different reviews
BigDoc(n) == [i \in 1..n |-> El("okeReviews-review-body", Gen(i))]

StaticDocs ==
    SeqsUpTo(StaticEls, MaxEls) \cup {FixtureDoc, BigDoc(2 * RenderCap + 1)}

JsTexts == {TShort, TShortCase, TFour, TMid}

JsDoms ==
    SeqsUpTo(JsTexts, MaxJs)
        \cup {[i \in 1..n |-> Gen(i)] : n \in {SupplementBelow, RenderCap + 1}}

SrcEls ==
    { El("okeReviews-review-body", TShort),
      El("jdgm-rev__body", TOther),
      El("okeReviews-review-body", TFour),
      El("ld+json", TThird) }

SrcDocs == SeqsUpTo(SrcEls, MaxSrcEls)

\* what one load-more button does when the pass reaches it
ButtonKinds == {"clickable", "hidden", "disabled", "stale", "unclickable"}
ButtonLists == SeqsUpTo(ButtonKinds, MaxButtons)

\* the k asked of phrases: app.py asks 10, the default is 12
PhraseCounts == {1, 10, 12}

Take(s, n) == IF Len(s) <= n THEN s ELSE SubSeq(s, 1, n)

----------------------------------------------------------------------------
(* scrape_reviews and scrape_js_reviews *)

\* before the first load-more pass
NoPass == [found |-> 0, tried |-> 0, clicks |-> 0, swallowed |-> 0]

ScrapeInit ==
    /\ pc = "start"
    /\ disabled \in BOOLEAN
    /\ page = <<>>
    /\ log = <<>>
    /\ staticCalls = 0
    /\ staticOutcome = "none"
    /\ staticRevs = <<>>
    /\ renderCalls = 0
    /\ created = 0
    /\ quitCalls = 0
    /\ driver = "none"
    /\ passes = 0
    /\ clicked = FALSE
    /\ lastPass = NoPass
    /\ collectCalls = 0
    /\ scrolls = 0
    /\ texts = <<>>
    /\ pending = "none"
    /\ excAt = "none"
    /\ result = <<>>
    /\ outcome = "running"
    /\ source = "none"

AnalyticsIdle ==
    /\ op = "none"
    /\ reviews = <<>>
    /\ nReq = 0
    /\ docs = <<>>
    /\ aResult = <<>>
    /\ aRaised = FALSE
    /\ kmeansCalls = 0
    /\ kmeansFailed = FALSE

rendererVars == <<created, quitCalls, driver, passes, clicked, lastPass, collectCalls, scrolls, texts, pending, excAt>>

\* an exception of the static pass that is not caught: it goes to the caller
StaticPropagates ==
    /\ staticOutcome' = "raised"
    /\ outcome' = "raised"
    /\ pc' = "done"
    /\ UNCHANGED <<page, staticRevs, result, source>>

\* except Exception: pass
StaticRaised ==
    /\ staticOutcome' = "raised"
    /\ pc' = "fallback"
    /\ UNCHANGED <<page, staticRevs, result, outcome, source>>

\* the static result is never returned: the pass always falls through
StaticFallsThrough(revs) ==
    /\ staticOutcome' = IF revs # <<>> THEN "nonempty" ELSE "empty"
    /\ pc' = "fallback"
    /\ UNCHANGED <<result, outcome, source>>

\* if revs: return revs
StaticReturned(revs) ==
    IF revs # <<>>
    THEN /\ staticOutcome' = "nonempty"
         /\ result' = revs
         /\ outcome' = "returned"
         /\ source' = "static"
         /\ pc' = "done"
    ELSE /\ staticOutcome' = "empty"
         /\ pc' = "fallback"
         /\ UNCHANGED <<result, outcome, source>>

\* scrape_reviews, step 1: try: revs = fetch_static_reviews(...); if revs:
\* return revs; except Exception: pass
StaticPass ==
    /\ pc = "start"
    /\ staticCalls' = staticCalls + 1
    /\ log' = Append(log, "static")
    /\ \E resp \in {"ok", "error"} :
         IF resp = "error"
         THEN \* requests.get or raise_for_status raised
              StaticRaised
         ELSE \E d \in StaticDocs : \E revs \in {_extract_from_html(d)} :
                    /\ page' = d
                    /\ staticRevs' = revs
                    /\ StaticReturned(revs)
    /\ UNCHANGED <<disabled, renderCalls, rendererVars, analyticsVars>>

\* the flag read the wrong way round
RenderingEnabled == ~disabled

\* os.environ.get("DISABLE_SELENIUM") == "1"
RenderingDisabled == disabled

\* scrape_reviews, step 2: if DISABLE_SELENIUM == "1": return []; otherwise
\* call scrape_js_reviews.  The response of the static pass is gone by now.
Fallback ==
    /\ pc = "fallback"
    /\ page' = <<>>
    /\ IF RenderingDisabled
       THEN /\ result' = <<>>
            /\ outcome' = "returned"
            /\ source' = "disabled"
            /\ pc' = "done"
            /\ UNCHANGED <<renderCalls, log>>
       ELSE /\ renderCalls' = renderCalls + 1
            /\ log' = Append(log, "render")
            /\ pc' = "launch"
            /\ UNCHANGED <<result, outcome, source>>
    /\ UNCHANGED <<disabled, staticCalls, staticOutcome, staticRevs,
                   rendererVars, analyticsVars>>

\* the try block of scrape_js_reviews is left by an exception of step `at`
Raise(at) ==
    /\ pending' = "raise"
    /\ excAt' = at
    /\ pc' = "finally"

\* scrape_js_reviews up to driver = uc.Chrome(...): the imports or the
\* constructor may raise, and then there is no driver
Launch ==
    /\ pc = "launch"
    /\ \E started \in BOOLEAN :
         IF started
         THEN /\ created' = created + 1
              /\ driver' = "open"
              /\ pc' = "get"
              /\ UNCHANGED <<excAt, outcome>>
         ELSE /\ excAt' = "launch"
              /\ outcome' = "raised"
              /\ pc' = "done"
              /\ UNCHANGED <<created, driver>>
    /\ UNCHANGED <<disabled, page, log, staticCalls, staticOutcome, staticRevs,
                   renderCalls, quitCalls, passes, clicked, scrolls,
                   texts, pending, result, source, lastPass, collectCalls,
                   analyticsVars>>

\* driver.get(url)
Get ==
    /\ pc = "get"
    /\ \E loaded \in BOOLEAN :
         IF loaded
         THEN pc' = "wait" /\ UNCHANGED <<pending, excAt>>
         ELSE Raise("get")
    /\ UNCHANGED <<disabled, page, log, staticCalls, staticOutcome, staticRevs,
                   renderCalls, created, quitCalls, driver, passes, clicked,
                   scrolls, texts, result, outcome, source,
                   lastPass, collectCalls,
                   analyticsVars>>

\* WebDriverWait(driver, 25).until(...): TimeoutException when no review
\* container appears
Wait ==
    /\ pc = "wait"
    /\ \E present \in BOOLEAN :
         IF present
         THEN pc' = "loadmore" /\ UNCHANGED <<pending, excAt>>
         ELSE Raise("wait")
    /\ UNCHANGED <<disabled, page, log, staticCalls, staticOutcome, staticRevs,
                   renderCalls, created, quitCalls, driver, passes, clicked,
                   scrolls, texts, result, outcome, source,
                   lastPass, collectCalls,
                   analyticsVars>>

\* the buttons of one pass b.click() succeeds on: every other kind is skipped
\* by the condition or leaves by the swallowed exception
Clickable(buttons) == {i \in 1..Len(buttons) : buttons[i] = "clickable"}

\* the handling of button i placed in one try around the whole button loop:
\* the first exception leaves the loop, and the buttons after it are not tried
ButtonStepAborting(buttons, st, i) ==
    IF st.swallowed > 0
    THEN st
    ELSE [ found |-> st.found,
           tried |-> st.tried + 1,
           clicks |-> st.clicks + (IF i \in Clickable(buttons) THEN 1 ELSE 0),
           swallowed |-> st.swallowed
                           + (IF buttons[i] \in {"stale", "unclickable"}
                              THEN 1 ELSE 0) ]

\* try: if b.is_displayed() and b.is_enabled(): scrollIntoView; b.click();
\* clicked = True -- except Exception: pass.  A hidden or disabled button fails
\* the condition; a stale one raises in is_displayed and an unclickable one in
\* b.click(), and the exception is swallowed inside the iteration
ButtonStep(buttons, st, i) ==
    [ found |-> st.found,
      tried |-> st.tried + 1,
      clicks |-> st.clicks + (IF i \in Clickable(buttons) THEN 1 ELSE 0),
      swallowed |-> st.swallowed
                      + (IF buttons[i] \in {"stale", "unclickable"}
                         THEN 1 ELSE 0) ]

\* for b in buttons: ... over the list find_elements returned
TryButtons(buttons) ==
    LET Step(st, i) == ButtonStep(buttons, st, i)
    IN  Loop(Step, 1, Len(buttons),
             [found |-> Len(buttons), tried |-> 0, clicks |-> 0, swallowed |-> 0])

\* one pass of `for _ in range(clicks)`: find the buttons, try each, and
\* leave the loop when none was clicked or the passes are used up
LoadMorePass ==
    /\ pc = "loadmore"
    /\ passes < Clicks
    /\ \E found \in BOOLEAN :
         IF found
         THEN \E buttons \in ButtonLists : \E pass \in {TryButtons(buttons)} :
                /\ passes' = passes + 1
                /\ lastPass' = pass
                /\ clicked' = (pass.clicks > 0)
                /\ pc' = IF pass.clicks = 0 \/ passes + 1 = Clicks
                         THEN "scroll" ELSE "loadmore"
                /\ UNCHANGED <<pending, excAt>>
         ELSE \* driver.find_elements raised
              /\ Raise("find_elements")
              /\ UNCHANGED <<passes, clicked, lastPass>>
    /\ UNCHANGED <<disabled, page, log, staticCalls, staticOutcome, staticRevs,
                   renderCalls, created, quitCalls, driver, scrolls, texts,
                   result, outcome, source, collectCalls, analyticsVars>>

\* one pass of `for _ in range(3)`: window.scrollTo(...)
Scroll ==
    /\ pc = "scroll"
    /\ scrolls < ScrollPasses
    /\ \E scrolled \in BOOLEAN :
         IF scrolled
         THEN /\ scrolls' = scrolls + 1
              /\ pc' = IF scrolls + 1 = ScrollPasses THEN "collect" ELSE "scroll"
              /\ UNCHANGED <<pending, excAt>>
         ELSE Raise("scroll") /\ UNCHANGED scrolls
    /\ UNCHANGED <<disabled, page, log, staticCalls, staticOutcome, staticRevs,
                   renderCalls, created, quitCalls, driver, passes, clicked,
                   texts, result, outcome, source, lastPass, collectCalls,
                   analyticsVars>>

\* texts = _collect_reviews_via_js(driver): an exception of the script is
\* swallowed there and gives []
Collect ==
    /\ pc = "collect"
    /\ \E ran \in BOOLEAN :
         IF ran
         THEN \E dom \in JsDoms : texts' = _collect_reviews_via_js(dom)
         ELSE texts' = <<>>
    /\ collectCalls' = collectCalls + 1
    /\ pc' = "supplement"
    /\ UNCHANGED <<disabled, page, log, staticCalls, staticOutcome, staticRevs,
                   renderCalls, created, quitCalls, driver, passes, clicked,
                   scrolls, pending, excAt, result, outcome, source,
                   lastPass,
                   analyticsVars>>

\* if len(texts) < 10: texts += _extract_from_html(driver.page_source);
\* return _dedup(texts)[:150] -- the value is kept in `result` while the
\* finally clause runs
Supplement ==
    /\ pc = "supplement"
    /\ IF Len(texts) < SupplementBelow
       THEN \E read \in BOOLEAN :
              IF read
              THEN \E d \in SrcDocs : \E more \in {texts \o _extract_from_html(d)} :
                     /\ texts' = more
                     /\ result' = Take(_dedup(more), RenderCap)
                     /\ pending' = "return"
                     /\ pc' = "finally"
                     /\ UNCHANGED excAt
              ELSE \* driver.page_source raised
                   /\ Raise("page_source")
                   /\ UNCHANGED <<texts, result>>
       ELSE /\ result' = Take(_dedup(texts), RenderCap)
            /\ pending' = "return"
            /\ pc' = "finally"
            /\ UNCHANGED <<texts, excAt>>
    /\ UNCHANGED <<disabled, page, log, staticCalls, staticOutcome, staticRevs,
                   renderCalls, created, quitCalls, driver, passes, clicked,
                   scrolls, outcome, source, lastPass, collectCalls,
                   analyticsVars>>

\* driver.quit() placed after the body instead of in a finally clause: an
\* exception of the body skips it
QuitOnReturnOnly ==
    IF pending = "return"
    THEN \E quitRaised \in BOOLEAN :
           /\ quitCalls' = quitCalls + 1
           /\ driver' = IF quitRaised THEN "quit_failed" ELSE "quit"
    ELSE UNCHANGED <<quitCalls, driver>>

\* try: driver.quit() except Exception: pass
Quit ==
    \E quitRaised \in BOOLEAN :
      /\ quitCalls' = quitCalls + 1
      /\ driver' = IF quitRaised THEN "quit_failed" ELSE "quit"

\* finally: try: driver.quit() except Exception: pass -- then the return or
\* the exception of the try block goes to the caller of scrape_reviews
Release ==
    /\ pc = "finally"
    /\ Quit
    /\ IF pending = "return"
       THEN outcome' = "returned" /\ source' = "render"
       ELSE outcome' = "raised" /\ UNCHANGED source
    /\ pc' = "done"
    /\ UNCHANGED <<disabled, page, log, staticCalls, staticOutcome, staticRevs,
                   renderCalls, created, passes, clicked, scrolls,
                   texts, pending, excAt, result, lastPass, collectCalls,
                   analyticsVars>>

Init == ScrapeInit /\ AnalyticsIdle

Next ==
    \/ StaticPass
    \/ Fallback
    \/ Launch
    \/ Get
    \/ Wait
    \/ LoadMorePass
    \/ Scroll
    \/ Collect
    \/ Supplement
    \/ Release

Spec == Init /\ [][Next]_vars

----------------------------------------------------------------------------
(* analysis.py: helpers *)

\* _clean: t = (t or "").strip(); re.sub(r"\s+", " ", t)
_clean(t) == CollapseWs(Strip(t))

\* t.split(): the maximal runs of non-whitespace, in order
SplitStep(t, st, i) ==
    IF IsWs(t[i])
    THEN IF st.cur = <<>> THEN st
         ELSE [words |-> Append(st.words, st.cur), cur |-> <<>>]
    ELSE [words |-> st.words, cur |-> Append(st.cur, t[i])]

Split(t) ==
    LET st == Loop(LAMBDA s, i : SplitStep(t, s, i), 1, Len(t),
                   [words |-> <<>>, cur |-> <<>>])
    IN  IF st.cur = <<>> THEN st.words ELSE Append(st.words, st.cur)

\* " ".join(toks)
JoinStep(toks, acc, i) == IF i = 1 THEN toks[i] ELSE acc \o <<" ">> \o toks[i]
Join(toks) == Loop(LAMBDA a, i : JoinStep(toks, a, i), 1, Len(toks), <<>>)

\* _shorten(s, words)
_shorten(s, words) ==
    LET toks == Split(s)
    IN  IF Len(toks) <= words THEN s
        ELSE Join(SubSeq(toks, 1, words)) \o <<"...">>

\* _compact_bullets: docs[:3], each shortened to 20 words
_compact_bullets(ds) ==
    IF ds = <<>> THEN <<>>
    ELSE [i \in 1..(IF Len(ds) < 3 THEN Len(ds) ELSE 3) |-> _shorten(ds[i], 20)]

\* [_clean(r) for r in (reviews or []) if r and len(r.split()) >= 5]
CorpusStep(rs, acc, i) ==
    IF rs[i] # <<>> /\ NTokens(rs[i]) >= MinWords
    THEN Append(acc, _clean(rs[i]))
    ELSE acc

Corpus(rs) == Loop(LAMBDA a, i : CorpusStep(rs, a, i), 1, Len(rs), <<>>)

----------------------------------------------------------------------------
(* TfidfVectorizer(ngram_range=(1, 2), stop_words="english") *)

\* the words of scikit-learn's English stop word list that the reviews of
\* the model use
StopWords ==
    { <<"t","h","e">>, <<"i","s">>, <<"a","t">>, <<"i","t">>, <<"b","e">>,
      <<"a","n","d">>, <<"o","f">> }

\* the analyzer: lower-case, tokens of two or more word characters
\* (token_pattern r"(?u)\b\w\w+\b"), stop words removed
Analyze(d) ==
    SelectSeq(Split(Lower(d)), LAMBDA w : Len(w) >= 2 /\ w \notin StopWords)

\* the unigrams and bigrams of one document
NGrams(d) ==
    LET toks == Analyze(d)
    IN  {toks[i] : i \in 1..Len(toks)}
          \cup {toks[i] \o <<" ">> \o toks[i+1] : i \in 1..(Len(toks) - 1)}

\* the vocabulary fit_transform learns; fit_transform raises ValueError
\* ("empty vocabulary; perhaps the documents only contain stop words") when
\* it is empty
Vocabulary(ds) == UNION {NGrams(ds[i]) : i \in 1..Len(ds)}

----------------------------------------------------------------------------
(* The reviews the analytics inputs are drawn from *)

\* "the is at it be": 5 tokens, every one an English stop word
RStop ==
    <<"t","h","e"," ","i","s"," ","a","t"," ","i","t"," ","b","e">>

\* "the battery and the motor": 5 tokens
RMotor ==
    <<"t","h","e"," ","b","a","t","t","e","r","y"," ","a","n","d"," ","t",
      "h","e"," ","m","o","t","o","r">>

\* "the motor is quiet": 4 tokens
RFour ==
    <<"t","h","e"," ","m","o","t","o","r"," ","i","s"," ","q","u","i","e",
      "t">>

\* "the motor ": two tokens, repeated to build a long review
RPair ==
    <<"t","h","e"," ","m","o","t","o","r"," ">>

\* "quiet": one token
RQuiet ==
    <<"q","u","i","e","t">>

RECURSIVE Times(_, _)
Times(t, n) == IF n = 0 THEN <<>> ELSE t \o Times(t, n - 1)

\* "the motor the motor ... the motor quiet": 21 tokens
RLong == Times(RPair, 10) \o RQuiet

ReviewPool == {<<>>, RFour, RStop, RMotor, RLong}

ReviewLists == SeqsUpTo(ReviewPool, MaxReviews)

\* VADER's compound score of one review, in 1/10000: the lexicon is not
\* modelled, every review may get any of these scores
ScorePool == {0 - 500, 499, 4404}

Max(a, b) == IF a >= b THEN a ELSE b
Min(a, b) == IF a <= b THEN a ELSE b

SumStep(f, acc, i) == acc + f[i]
Sum(f) == Loop(LAMBDA a, i : SumStep(f, a, i), 1, Len(f), 0)

Abs(x) == IF x < 0 THEN 0 - x ELSE x

\* round(num / den, 0) to the nearest integer, ties to even, as Python rounds
RoundDiv(num, den) ==
    LET q == Abs(num) \div den
        r == Abs(num) % den
        up == IF 2 * r > den \/ (2 * r = den /\ q % 2 = 1) THEN q + 1 ELSE q
    IN  IF num < 0 THEN 0 - up ELSE up

----------------------------------------------------------------------------
(* senti, phrases, clusters *)

\* senti(reviews)
senti ==
    /\ op = "none"
    /\ \E rs \in ReviewLists : \E kept \in {Corpus(rs)} :
             /\ reviews' = rs
             /\ docs' = kept
             /\ IF kept = <<>>
                THEN aResult' = [avg |-> 0, distribution |-> [pos |-> 0, neu |-> 0, neg |-> 0]]
                ELSE \E s \in [1..Len(kept) -> ScorePool] :
                       aResult' =
                         [avg |-> RoundDiv(Sum(s), 10 * Max(Len(kept), 1)),
                          distribution |->
                            [pos |-> Cardinality({i \in 1..Len(kept) : s[i] >= 500}),
                             neg |-> Cardinality({i \in 1..Len(kept) : s[i] <= 0 - 500}),
                             neu |-> Cardinality({i \in 1..Len(kept) :
                                                    s[i] < 500 /\ s[i] > 0 - 500})]]
    /\ op' = "senti"
    /\ UNCHANGED <<nReq, aRaised, kmeansCalls, kmeansFailed, scrapeVars>>

\* phrases(reviews, k): which k terms rank highest depends on the tf-idf
\* weights, which the model does not compute: any k terms of the vocabulary
\* may; the result is kept as the set of the terms returned, [terms |-> ...]
phrases ==
    /\ op = "none"
    /\ \E rs \in ReviewLists, k \in PhraseCounts :
         \E kept \in {Corpus(rs)} : \E feats \in {Vocabulary(kept)} :
             /\ reviews' = rs
             /\ nReq' = k
             /\ docs' = kept
             /\ IF kept = <<>>
                THEN aResult' = [terms |-> {}] /\ aRaised' = FALSE
                ELSE IF feats = {}
                THEN \* vec.fit_transform(docs) raises ValueError
                     UNCHANGED aResult /\ aRaised' = TRUE
                ELSE /\ \E top \in SUBSET feats :
                          /\ Cardinality(top) = Min(k, Cardinality(feats))
                          /\ aResult' = [terms |-> {p \in top : Len(p) > 2}]
                     /\ aRaised' = FALSE
    /\ op' = "phrases"
    /\ UNCHANGED <<kmeansCalls, kmeansFailed, scrapeVars>>

\* the count not bounded by the size of the corpus
UnboundedN(n, ds) == Max(1, n)

\* n = max(1, min(n, len(docs)))
EffectiveN(n, ds) == Max(1, Min(n, Len(ds)))

\* f"Theme {i+1}"
ThemeLabel(i) == "Theme " \o ToString(i)

\* {"Theme 1": _compact_bullets(docs)}
OneTheme(ds) == [l \in {ThemeLabel(1)} |-> _compact_bullets(ds)]

\* the loop `for i in range(n)`: the summary joins the top 3 terms of the
\* cluster's centroid (kept as their number: which terms they are depends on
\* the centroids), the bullet is the first review of the cluster, shortened
Themes(n, ds, labels, feats) ==
    [l \in {ThemeLabel(i + 1) : i \in 0..(n - 1)} |->
        LET i == CHOOSE j \in 0..(n - 1) : ThemeLabel(j + 1) = l
            reps == SelectSeq([j \in 1..Len(ds) |-> j], LAMBDA j : labels[j] = i)
            bullet == IF reps # <<>> THEN ds[reps[1]] ELSE <<>>
        IN  <<[terms |-> Min(3, Cardinality(feats))], _shorten(bullet, 22)>>]

\* clusters(reviews, n)
clusters ==
    /\ op = "none"
    /\ \E rs \in ReviewLists, n \in 0..MaxN :
         \E kept \in {Corpus(rs)} :
         \E eff \in {EffectiveN(n, kept)}, feats \in {Vocabulary(kept)} :
             /\ reviews' = rs
             /\ nReq' = n
             /\ docs' = kept
             /\ IF kept = <<>>
                THEN /\ aResult' = [l \in {"Themes (sample reviews)"} |-> <<>>]
                     /\ UNCHANGED <<aRaised, kmeansCalls, kmeansFailed>>
                ELSE IF eff = 1
                THEN /\ aResult' = OneTheme(kept)
                     /\ UNCHANGED <<aRaised, kmeansCalls, kmeansFailed>>
                ELSE IF feats = {}
                THEN \* vec.fit_transform(docs) raises, outside the try
                     /\ aRaised' = TRUE
                     /\ UNCHANGED <<aResult, kmeansCalls, kmeansFailed>>
                ELSE /\ kmeansCalls' = kmeansCalls + 1
                     /\ \E fitted \in BOOLEAN :
                          IF fitted
                          THEN \E labels \in [1..Len(kept) -> 0..(eff - 1)] :
                                 /\ aResult' = Themes(eff, kept, labels, feats)
                                 /\ kmeansFailed' = FALSE
                          ELSE \* except Exception: one theme
                               /\ aResult' = OneTheme(kept)
                               /\ kmeansFailed' = TRUE
                     /\ UNCHANGED aRaised
    /\ op' = "clusters"
    /\ UNCHANGED scrapeVars

NextAnalytics ==
    \/ senti
    \/ phrases
    \/ clusters

\* the analytics functions are called on their own, whatever the scraper did
InitAnalytics == Init /\ ~disabled

SpecAnalytics == InitAnalytics /\ [][NextAnalytics]_vars

----------------------------------------------------------------------------
(* Properties of scrape_reviews (checked under Spec) *)

Done == pc = "done"
Returned == pc = "done" /\ outcome = "returned"

\* C1: the static fetch is attempted exactly once and before anything else;
\* the renderer is invoked at most once, only after the static attempt
\* returned an empty list or raised, and never when the static attempt
\* returned a non-empty list, which is then exactly what is returned.
C1_StaticFirstRenderFallback ==
    /\ staticCalls <= 1
    /\ renderCalls <= 1
    /\ pc = "start" => log = <<>> /\ staticCalls = 0 /\ renderCalls = 0 /\ created = 0
    /\ pc # "start" => staticCalls = 1 /\ log[1] = "static"
    /\ renderCalls = 1 =>
         /\ log = <<"static", "render">>
         /\ staticOutcome \in {"raised", "empty"}
    /\ created > 0 => renderCalls = 1
    /\ staticOutcome = "nonempty" =>
         /\ renderCalls = 0
         /\ created = 0
         /\ Returned
         /\ result = staticRevs
         /\ result # <<>>

\* a non-empty static result came back and was returned, with no renderer
C1_Witness ==
    /\ Returned
    /\ staticOutcome = "nonempty"
    /\ log = <<"static">>
    /\ Len(result) = 2

\* C2: scrape_reviews raises only if the renderer was invoked and itself
\* raised; a failure of the static fetch never reaches the caller; with
\* rendering disabled and the static fetch failing or returning nothing,
\* the call returns [] without raising and without launching a browser.
C2_OnlyRenderErrorsPropagate ==
    /\ outcome = "raised" => Done /\ renderCalls = 1 /\ excAt # "none"
    /\ staticOutcome = "raised" /\ renderCalls = 0 => outcome # "raised"
    /\ Done /\ disabled /\ staticOutcome \in {"raised", "empty"} =>
         /\ outcome = "returned"
         /\ result = <<>>
         /\ renderCalls = 0
         /\ created = 0
         /\ driver = "none"

\* the static fetch raised, rendering is disabled, and [] was returned
C2_Witness ==
    /\ Done
    /\ disabled
    /\ staticOutcome = "raised"
    /\ outcome = "returned"
    /\ result = <<>>

\* C3: once scrape_js_reviews has created a browser instance, driver.quit
\* is called exactly once before the call returns or raises, on every exit
\* path; no instance is left without its quit call when the call has ended.
C3_BrowserReleasedOnce ==
    /\ created <= 1
    /\ quitCalls <= created
    /\ Done => quitCalls = created
    /\ Done => driver # "open"
    /\ driver = "open" =>
         pc \in {"get", "wait", "loadmore", "scroll", "collect", "supplement", "finally"}
    /\ quitCalls = 1 => Done

\* the wait for the review container timed out and the browser was quit
C3_Witness ==
    /\ Done
    /\ outcome = "raised"
    /\ excAt = "wait"
    /\ created = 1
    /\ quitCalls = 1

\* C4, as claimed: whenever rendering is not disabled, a call that returns
\* normally returns a non-empty list.
C4_NonEmptyUnlessDisabled ==
    Returned /\ ~disabled => result # <<>>

\* C4, amended: an empty list is returned only if the static fetch yielded
\* nothing (it returned [] or raised) and either rendering is disabled and
\* no renderer ran, or the renderer ran and itself collected no review text.
C4_EmptyOnlyIfNothingFound ==
    Returned /\ result = <<>> =>
        /\ staticOutcome \in {"raised", "empty"}
        /\ \/ disabled /\ renderCalls = 0 /\ source = "disabled"
           \/ ~disabled /\ renderCalls = 1 /\ source = "render" /\ texts = <<>>

\* rendering is enabled, the renderer ran, and scrape_reviews returned []
C4_Witness ==
    /\ Returned
    /\ ~disabled
    /\ renderCalls = 1
    /\ source = "render"
    /\ result = <<>>

\* C5: the list returned is bounded: at most 300 entries from static
\* extraction, at most 150 from the renderer.
C5_BoundedResult ==
    Returned =>
        /\ source = "static" => Len(result) <= 300
        /\ source = "render" => Len(result) <= 150

\* the first occurrence of each text of ts, two texts being the same when
\* they are equal ignoring case
ExactFirstStep(ts, out, i) ==
    IF \E j \in 1..Len(out) : Lower(out[j]) = Lower(ts[i])
    THEN out
    ELSE Append(out, ts[i])

ExactFirst(ts) ==
    Loop(LAMBDA o, i : ExactFirstStep(ts, o, i), 1, Len(ts), <<>>)

\* the accepted fragments of a document, whitespace-normalized
Accepted(doc) == LET h == Hits(doc) IN [i \in 1..Len(h) |-> Normalize(h[i])]

\* C6: on the static path the output is the subsequence of the first
\* occurrence of each accepted fragment, two fragments being the same if and
\* only if their normalized texts are equal ignoring case.
C6_ExactTextDedup ==
    staticOutcome \in {"empty", "nonempty"} /\ pc \in {"fallback", "done"} /\ page # <<>> =>
        staticRevs = ExactFirst(Accepted(page))

\* the candidate filter of the specification
PassesFilter(r) == r = Normalize(r) /\ NTokens(r) >= 5 /\ Len(r) > 30

\* C7: every review in the extractor's output is whitespace-normalized, has
\* at least 5 tokens and more than 30 characters; the scorer never scores a
\* review of fewer than 5 tokens.
C7_CandidateFilter ==
    /\ \A i \in 1..Len(staticRevs) : PassesFilter(staticRevs[i])
    /\ Returned => \A i \in 1..Len(result) : PassesFilter(result[i])
    /\ op = "senti" => \A i \in 1..Len(docs) : NTokens(docs[i]) >= 5

\* the structured-data review bodies of a document that pass the filter
Structured(doc) ==
    SelectSeq([i \in 1..Len(doc) |-> doc[i]],
              LAMBDA el : el.cls = "ld+json" /\ PassesFilter(Normalize(el.text)))

\* C8: every structured-data review body that passes the candidate filter
\* is in the extractor's output, and the fixture of 3 structured-data and 2
\* selector-matched reviews, one of them in both, gives 4 reviews in
\* first-seen order.
C8_BothStrategies ==
    staticOutcome \in {"empty", "nonempty"} /\ pc \in {"fallback", "done"} =>
        /\ \A i \in 1..Len(Structured(page)) :
             \E j \in 1..Len(staticRevs) :
               staticRevs[j] = Normalize(Structured(page)[i].text)
        /\ page = FixtureDoc => staticRevs = <<TMid, TOther, TThird, TSel>>

----------------------------------------------------------------------------
(* Properties of the analytics functions (checked under SpecAnalytics) *)

\* C9: no analytics function raises; each has its empty-input result; in
\* clusters a corpus with an empty vocabulary gives the one-theme fallback.
C9_AnalyticsNeverRaise ==
    /\ ~aRaised
    /\ op = "senti" /\ docs = <<>> =>
         aResult = [avg |-> 0, distribution |-> [pos |-> 0, neu |-> 0, neg |-> 0]]
    /\ op = "phrases" /\ docs = <<>> => aResult = [terms |-> {}]
    /\ op = "clusters" /\ docs = <<>> =>
         Cardinality(DOMAIN aResult) = 1 /\ \A l \in DOMAIN aResult : aResult[l] = <<>>
    /\ op = "clusters" /\ Len(docs) >= 2 /\ nReq >= 2 /\ Vocabulary(docs) = {} =>
         /\ DOMAIN aResult = {"Theme 1"}
         /\ Len(aResult["Theme 1"]) = Min(3, Len(docs))

\* the labels "Theme 1" .. "Theme n"
ThemeKeys(n) == {"Theme " \o ToString(i) : i \in 1..n}

LoopLeft ==
    \/ pc \in {"scroll", "collect", "supplement"}
    \/ /\ pc \in {"finally", "done"}
       /\ created = 1
       /\ excAt \notin {"get", "wait", "find_elements"}

\* the passes of the load-more loop: at most `clicks` of them, a next pass
\* only after a pass that clicked a button, the loop left after the first
\* pass that clicked none, and every button of a pass tried whether or not
\* the handling of an earlier one raised
LoadMoreDiscipline ==
    /\ passes <= Clicks
    /\ pc = "loadmore" => passes < Clicks
    /\ pc = "loadmore" /\ passes > 0 => clicked
    /\ LoopLeft => passes >= 1 /\ (~clicked \/ passes = Clicks)
    /\ clicked = (lastPass.clicks > 0)
    /\ lastPass.tried = lastPass.found
    /\ lastPass.clicks + lastPass.swallowed <= lastPass.found
    /\ scrolls <= ScrollPasses
    /\ collectCalls <= 1
    /\ scrolls > 0 => LoopLeft
    /\ collectCalls = 1 => LoopLeft /\ scrolls = ScrollPasses

====
